---- MODULE Spec2Model ----
(***************************************************************************)
(* Economic Governor: the derived-metrics calculator, the Economic         *)
(* Governor (runModule1), the Funnel Diagnostician (runModule2) and the    *)
(* App component that evaluates them on the weeks it holds.                *)
(*                                                                         *)
(* Numbers.  A JavaScript number is modelled as an exact rational          *)
(* [n |-> numerator, d |-> denominator], d > 0, in lowest terms.  A value  *)
(* of type `number | null` is <<>> (null) or <<q>> (the number q).         *)
(* Strings built for display are modelled by a tag naming the branch that  *)
(* builds them.  A thrown TypeError is modelled by the result              *)
(* [threw |-> TRUE].                                                       *)
(***************************************************************************)
EXTENDS Integers, Sequences, FiniteSets, TLC

VARIABLES
    weeks,          \* App state `weeks` / the argument of runModule1
    module1Result,  \* <<>> (none) or <<Module1Result>>: App's useMemo of runModule1
    module2Result,  \* <<>> (none) or <<Module2Result>>: App's useMemo of runModule2
    prevUsed,       \* the local `prev` of the last runModule2 call: <<>> or <<week>>
    loading,        \* App state `loading`
    error,          \* App state `error`: <<>> or <<message>>
    syncing,        \* App state `syncing`
    pending,        \* the fetchSheetData calls in flight: "mount", "sync"
    tier2Store,     \* localStorage item TIER2_STORAGE_KEY: <<>> or <<tier2Map>>
    userOps,        \* number of Tier 2 operations done so far
    syncs,          \* number of syncs started so far
    pc              \* "input", "governed", "diagnosed" (pipeline) or "app"

vars ==
    <<weeks, module1Result, module2Result, prevUsed, loading, error, syncing,
      pending, tier2Store, userOps, syncs, pc>>

----------------------------------------------------------------------------
(* number | null *)

Null == <<>>
Some(x) == <<x>>
IsNull(x) == x = <<>>
Get(x) == x[1]

----------------------------------------------------------------------------
(* Exact arithmetic on numbers *)

Abs(i) == IF i < 0 THEN -i ELSE i

RECURSIVE GCD(_, _)
GCD(a, b) == IF b = 0 THEN a ELSE GCD(b, a % b)

\* the number n/d (d # 0) in lowest terms with a positive denominator
Q(n, d) ==
    LET g == GCD(Abs(n), Abs(d))
        s == IF d < 0 THEN -1 ELSE 1
    IN  [n |-> (s * n) \div g, d |-> (s * d) \div g]

R(i) == [n |-> i, d |-> 1]

Add(a, b) == Q(a.n * b.d + b.n * a.d, a.d * b.d)
Sub(a, b) == Q(a.n * b.d - b.n * a.d, a.d * b.d)
Mul(a, b) == Q(a.n * b.n, a.d * b.d)
Div(a, b) == Q(a.n * b.d, a.d * b.n)
Lt(a, b) == a.n * b.d < b.n * a.d
Le(a, b) == a.n * b.d <= b.n * a.d
Gt(a, b) == Lt(b, a)
Ge(a, b) == Le(b, a)
IsZero(a) == a.n = 0
AbsQ(a) == [n |-> Abs(a.n), d |-> a.d]

\* ToNumber of a `number | null` operand of <, >, <=, >=, -: null coerces to 0
ToNumber(x) == IF IsNull(x) THEN R(0) ELSE Get(x)

\* truthiness of a `number | null`: null and 0 are falsy
Truthy(x) == ~IsNull(x) /\ ~IsZero(Get(x))

----------------------------------------------------------------------------
(* types: WeekData, EMPTY_WEEK *)

PRIMARY_FIELDS ==
    {"adSpend", "cmForecast", "cmActual", "countForecast", "countActual",
     "aovForecast", "aovActual", "cacForecast", "cacActual"}

TIER2_FIELDS ==
    {"cpm", "ctr", "cpc", "frequency", "metaClicks", "shopifySessions", "cvr"}

EMPTY_WEEK ==
    [label |-> "", weekNum |-> 0,
     adSpend |-> Null, cmForecast |-> Null, cmActual |-> Null,
     countForecast |-> Null, countActual |-> Null,
     aovForecast |-> Null, aovActual |-> Null,
     cacForecast |-> Null, cacActual |-> Null,
     cpm |-> Null, ctr |-> Null, cpc |-> Null, frequency |-> Null,
     metaClicks |-> Null, shopifySessions |-> Null, cvr |-> Null]

----------------------------------------------------------------------------
(* economicGovernor: pva, calcWeek, avg *)

pvaSwapped(actual, forecast) ==
    IF IsNull(actual) \/ IsNull(forecast) \/ IsZero(Get(forecast)) THEN Null
    ELSE IF IsZero(Get(actual)) THEN Null
    ELSE Some(Mul(Div(Get(forecast), Get(actual)), R(100)))

pva(actual, forecast) ==
    IF IsNull(actual) \/ IsNull(forecast) \/ IsZero(Get(forecast)) THEN Null
    ELSE Some(Mul(Div(Get(actual), Get(forecast)), R(100)))

unitCmNonZero(cm, count) ==
    IF ~IsNull(cm) /\ Truthy(count) THEN Some(Div(Get(cm), Get(count))) ELSE Null

\* cm / count when cm is present and count is truthy and > 0
unitCm(cm, count) ==
    IF ~IsNull(cm) /\ Truthy(count) /\ Gt(Get(count), R(0))
    THEN Some(Div(Get(cm), Get(count)))
    ELSE Null

calcWeekDefaulted(w) ==
    [w EXCEPT !.countActual = Some(ToNumber(w.countActual))] @@
    [cmPva |-> pva(w.cmActual, w.cmForecast),
     countPva |-> pva(w.countActual, w.countForecast),
     aovPva |-> pva(w.aovActual, w.aovForecast),
     cacPva |-> pva(w.cacActual, w.cacForecast),
     unitCmActual |-> unitCm(w.cmActual, w.countActual),
     unitCmForecast |-> unitCm(w.cmForecast, w.countForecast),
     cacAovGap |->
        IF ~IsNull(w.cacActual) /\ ~IsNull(w.aovActual)
        THEN Some(Sub(Get(w.cacActual), Get(w.aovActual))) ELSE Null,
     clickSessionRatio |->
        IF ~IsNull(w.metaClicks) /\ ~IsNull(w.shopifySessions)
           /\ Gt(Get(w.shopifySessions), R(0))
        THEN Some(Div(Get(w.metaClicks), Get(w.shopifySessions))) ELSE Null]

calcWeek(w) ==
    w @@
    [cmPva |-> pva(w.cmActual, w.cmForecast),
     countPva |-> pva(w.countActual, w.countForecast),
     aovPva |-> pva(w.aovActual, w.aovForecast),
     cacPva |-> pva(w.cacActual, w.cacForecast),
     unitCmActual |-> unitCm(w.cmActual, w.countActual),
     unitCmForecast |-> unitCm(w.cmForecast, w.countForecast),
     cacAovGap |->
        IF ~IsNull(w.cacActual) /\ ~IsNull(w.aovActual)
        THEN Some(Sub(Get(w.cacActual), Get(w.aovActual))) ELSE Null,
     clickSessionRatio |->
        IF ~IsNull(w.metaClicks) /\ ~IsNull(w.shopifySessions)
           /\ Gt(Get(w.shopifySessions), R(0))
        THEN Some(Div(Get(w.metaClicks), Get(w.shopifySessions))) ELSE Null]

RECURSIVE SumQ(_)
SumQ(s) == IF s = <<>> THEN R(0) ELSE Add(Head(s), SumQ(Tail(s)))

avg(values) ==
    LET valid == SelectSeq(values, LAMBDA v : ~IsNull(v))
    IN  IF Len(valid) = 0 THEN Null
        ELSE Some(Div(SumQ([i \in 1..Len(valid) |-> Get(valid[i])]), R(Len(valid))))

----------------------------------------------------------------------------
(* economicGovernor: runModule1 *)

CM_PLAN_FACTOR == 2
VOLUME_THRESHOLD == 70
MIRAGE_CM_PVA == 95
MIRAGE_COUNT_PVA == 50
RECENT_WEEKS == 3

\* the outcome of a call that ends in a TypeError (a method called on null)
Thrown == [threw |-> TRUE]

\* the filter predicate of `withData`
HasData(w) == ~IsNull(w.cmActual) \/ ~IsNull(w.countActual) \/ ~IsNull(w.adSpend)

withDataOf(calculated) == SelectSeq(calculated, HasData)

latestOfAll(calculated, withData) ==
    IF Len(calculated) > 0 THEN Some(calculated[Len(calculated)]) ELSE Null

\* withData.length > 0 ? withData[withData.length - 1] : null
latestOf(calculated, withData) ==
    IF Len(withData) > 0 THEN Some(withData[Len(withData)]) ELSE Null

recentWeeksOfAll(withData) == withData

\* withData.slice(-3)
recentWeeksOf(withData) ==
    IF Len(withData) <= RECENT_WEEKS THEN withData
    ELSE SubSeq(withData, Len(withData) - RECENT_WEEKS + 1, Len(withData))

avgCountPvaOf(recentWeeks) ==
    avg([i \in 1..Len(recentWeeks) |-> recentWeeks[i].countPva])

hasVolumeProblem(avgCountPva) ==
    ~IsNull(avgCountPva) /\ Lt(Get(avgCountPva), R(VOLUME_THRESHOLD))

\* latest?.f : null when there is no latest week
Opt(latest, f) == IF IsNull(latest) THEN Null ELSE Get(latest)[f]

hasCmProblemNoGap(latest) ==
    LET latestUnitCm == Opt(latest, "unitCmActual")
        latestUnitCmPlan == Opt(latest, "unitCmForecast")
    IN  IF ~IsNull(latestUnitCm) /\ ~IsNull(latestUnitCmPlan)
           /\ Lt(Get(latestUnitCmPlan), R(0))
        THEN Lt(Get(latestUnitCm), Mul(Get(latestUnitCmPlan), R(CM_PLAN_FACTOR)))
        ELSE ~IsNull(latestUnitCm) /\ Lt(Get(latestUnitCm), R(0))
             /\ ~IsNull(latestUnitCmPlan) /\ Ge(Get(latestUnitCmPlan), R(0))

hasCmProblem(latest) ==
    LET latestUnitCm == Opt(latest, "unitCmActual")
        latestUnitCmPlan == Opt(latest, "unitCmForecast")
        gap == Opt(latest, "cacAovGap")
        byUnitCm ==
            IF ~IsNull(latestUnitCm) /\ ~IsNull(latestUnitCmPlan)
               /\ Lt(Get(latestUnitCmPlan), R(0))
            THEN Lt(Get(latestUnitCm), Mul(Get(latestUnitCmPlan), R(CM_PLAN_FACTOR)))
            ELSE ~IsNull(latestUnitCm) /\ Lt(Get(latestUnitCm), R(0))
                 /\ ~IsNull(latestUnitCmPlan) /\ Ge(Get(latestUnitCmPlan), R(0))
    IN  IF ~IsNull(gap) /\ Gt(Get(gap), R(0)) THEN TRUE ELSE byUnitCm

verdictOfCmFirst(cm, vol) ==
    IF cm THEN "cm_problem"
    ELSE IF cm /\ vol THEN "both"
    ELSE IF vol THEN "volume_problem"
    ELSE "neither"

verdictOf(cm, vol) ==
    IF cm /\ vol THEN "both"
    ELSE IF cm THEN "cm_problem"
    ELSE IF vol THEN "volume_problem"
    ELSE "neither"

scaleOfLeakHunt(cm, vol) ==
    IF cm /\ vol THEN [scalePermission |-> "leak_hunt_only", scaleReason |-> "losses"]
    ELSE IF cm THEN [scalePermission |-> "denied", scaleReason |-> "losses"]
    ELSE IF vol THEN [scalePermission |-> "allowed", scaleReason |-> "grow_volume"]
    ELSE [scalePermission |-> "allowed", scaleReason |-> "within_range"]

\* scalePermission and the branch that builds scaleReason
scaleOf(cm, vol) ==
    IF cm THEN [scalePermission |-> "denied", scaleReason |-> "losses"]
    ELSE IF vol THEN [scalePermission |-> "allowed", scaleReason |-> "grow_volume"]
    ELSE [scalePermission |-> "allowed", scaleReason |-> "within_range"]

mirageGuardNoNullCheck(totalCmPva, countPva) ==
    /\ ~IsNull(totalCmPva) /\ Gt(ToNumber(totalCmPva), R(MIRAGE_CM_PVA))
    /\ Lt(ToNumber(countPva), R(MIRAGE_COUNT_PVA))

mirageGuardAtLeast95(totalCmPva, countPva) ==
    /\ ~IsNull(totalCmPva) /\ Ge(ToNumber(totalCmPva), R(MIRAGE_CM_PVA))
    /\ ~IsNull(countPva) /\ Lt(ToNumber(countPva), R(MIRAGE_COUNT_PVA))

mirageGuard(totalCmPva, countPva) ==
    /\ ~IsNull(totalCmPva) /\ Gt(ToNumber(totalCmPva), R(MIRAGE_CM_PVA))
    /\ ~IsNull(countPva) /\ Lt(ToNumber(countPva), R(MIRAGE_COUNT_PVA))

\* cmMirage, cmMirageExplanation; threw: totalCmPva.toFixed / countPva.toFixed on null
mirageOf(latest) ==
    IF IsNull(latest)
    THEN [cmMirage |-> FALSE, cmMirageExplanation |-> Null, threw |-> FALSE]
    ELSE LET totalCmPva == Get(latest).cmPva
             countPva == Get(latest).countPva
         IN  IF mirageGuard(totalCmPva, countPva)
             THEN [cmMirage |-> TRUE,
                   cmMirageExplanation |-> Some("mirage"),
                   threw |-> IsNull(totalCmPva) \/ IsNull(countPva)]
             ELSE [cmMirage |-> FALSE, cmMirageExplanation |-> Null, threw |-> FALSE]

biggestLeakOfTiesToCac(latest) ==
    IF ~IsNull(latest) /\ Truthy(Get(latest).countActual)
    THEN LET w == Get(latest)
             cacGapDollars ==
                 IF ~IsNull(w.cacActual) /\ ~IsNull(w.cacForecast)
                 THEN Mul(Sub(Get(w.cacActual), Get(w.cacForecast)), Get(w.countActual))
                 ELSE R(0)
             aovGapDollars ==
                 IF ~IsNull(w.aovActual) /\ ~IsNull(w.aovForecast)
                 THEN Mul(Sub(Get(w.aovForecast), Get(w.aovActual)), Get(w.countActual))
                 ELSE R(0)
         IN  IF Ge(cacGapDollars, aovGapDollars)
             THEN [biggestLeak |-> "cac_overspend", biggestLeakDollars |-> cacGapDollars]
             ELSE [biggestLeak |-> "aov_shortfall", biggestLeakDollars |-> aovGapDollars]
    ELSE [biggestLeak |-> "", biggestLeakDollars |-> R(0)]

\* biggestLeak (the branch that builds it) and biggestLeakDollars
biggestLeakOf(latest) ==
    IF ~IsNull(latest) /\ Truthy(Get(latest).countActual)
    THEN LET w == Get(latest)
             cacGapDollars ==
                 IF ~IsNull(w.cacActual) /\ ~IsNull(w.cacForecast)
                 THEN Mul(Sub(Get(w.cacActual), Get(w.cacForecast)), Get(w.countActual))
                 ELSE R(0)
             aovGapDollars ==
                 IF ~IsNull(w.aovActual) /\ ~IsNull(w.aovForecast)
                 THEN Mul(Sub(Get(w.aovForecast), Get(w.aovActual)), Get(w.countActual))
                 ELSE R(0)
         IN  IF Gt(cacGapDollars, aovGapDollars)
             THEN [biggestLeak |-> "cac_overspend", biggestLeakDollars |-> cacGapDollars]
             ELSE [biggestLeak |-> "aov_shortfall", biggestLeakDollars |-> aovGapDollars]
    ELSE [biggestLeak |-> "", biggestLeakDollars |-> R(0)]

WARNINGS == <<"meta_new_customers", "meta_attribution", "shopify_usa_store">>

runModule1(ws) ==
    LET calculated == [i \in 1..Len(ws) |-> calcWeek(ws[i])]
        withData == withDataOf(calculated)
        latest == latestOf(calculated, withData)
        recentWeeks == recentWeeksOf(withData)
        avgCountPva == avgCountPvaOf(recentWeeks)
        vol == hasVolumeProblem(avgCountPva)
        cm == hasCmProblem(latest)
        verdict == verdictOf(cm, vol)
        scale == scaleOf(cm, vol)
        mirage == mirageOf(latest)
        leak == biggestLeakOf(latest)
    IN  IF mirage.threw THEN Thrown
        ELSE [verdict |-> verdict,
              scalePermission |-> scale.scalePermission,
              scaleReason |-> scale.scaleReason,
              verdictExplanation |-> verdict,
              warnings |-> WARNINGS,
              cmMirage |-> mirage.cmMirage,
              cmMirageExplanation |-> mirage.cmMirageExplanation,
              biggestLeak |-> leak.biggestLeak,
              biggestLeakDollars |-> leak.biggestLeakDollars,
              weeks |-> calculated,
              latestWeek |-> latest]

----------------------------------------------------------------------------
(* funnelDiagnostician: the six steps *)

STEP1_GAP == 15
CPM_WARN == 30
FREQ_FAIL == 3
FREQ_WARN == 2
STEP5_PASS == 85
STEP5_WARN == 50
STEP6_FAIL == -50
CTR_FAIL == Q(1, 1)
CTR_WARN == Q(3, 2)
RATIO_FAIL == Q(3, 2)
RATIO_WARN == Q(6, 5)
CVR_FAIL == Q(3, 2)
CVR_WARN == Q(5, 2)

\* a FunnelStep: its number, its status and the branch that builds its finding
Step(n, status, finding) == [step |-> n, status |-> status, finding |-> finding]

\* weeks.length >= 2 ? weeks[weeks.length - 2] : null
prevOf(m1weeks) ==
    IF Len(m1weeks) >= 2 THEN Some(m1weeks[Len(m1weeks) - 1]) ELSE Null

\* prev?.f ? (latest.f - prev.f) / prev.f * 100 : null
changeOf(latest, prev, f) ==
    IF Truthy(Opt(prev, f))
    THEN Some(Mul(Div(Sub(Get(latest[f]), Get(Get(prev)[f])), Get(Get(prev)[f])), R(100)))
    ELSE Null

buildStep1GapAbove15(latest, prev) ==
    IF IsNull(latest.adSpend) \/ IsNull(latest.countActual)
    THEN Step(1, "no_data", "missing")
    ELSE LET spendChange == changeOf(latest, prev, "adSpend")
             orderChange == changeOf(latest, prev, "countActual")
         IN  IF ~IsNull(spendChange) /\ ~IsNull(orderChange)
             THEN LET proportional ==
                          Le(AbsQ(Sub(Get(spendChange), Get(orderChange))), R(STEP1_GAP))
                  IN  IF ~proportional /\ Gt(Get(spendChange), R(0))
                         /\ Le(Get(orderChange), R(0))
                      THEN Step(1, "fail", "efficiency_breakdown")
                      ELSE IF ~proportional
                      THEN Step(1, "warning", "disproportionate")
                      ELSE Step(1, "pass", "proportional")
             ELSE IF ~IsNull(latest.cacActual) /\ ~IsNull(latest.aovActual)
                     /\ Gt(Get(latest.cacActual), Get(latest.aovActual))
                  THEN Step(1, "fail", "static_cac_exceeds_aov")
                  ELSE Step(1, "pass", "static")

buildStep1(latest, prev) ==
    IF IsNull(latest.adSpend) \/ IsNull(latest.countActual)
    THEN Step(1, "no_data", "missing")
    ELSE LET spendChange == changeOf(latest, prev, "adSpend")
             orderChange == changeOf(latest, prev, "countActual")
         IN  IF ~IsNull(spendChange) /\ ~IsNull(orderChange)
             THEN LET proportional ==
                          Lt(AbsQ(Sub(Get(spendChange), Get(orderChange))), R(STEP1_GAP))
                  IN  IF ~proportional /\ Gt(Get(spendChange), R(0))
                         /\ Le(Get(orderChange), R(0))
                      THEN Step(1, "fail", "efficiency_breakdown")
                      ELSE IF ~proportional
                      THEN Step(1, "warning", "disproportionate")
                      ELSE Step(1, "pass", "proportional")
             ELSE IF ~IsNull(latest.cacActual) /\ ~IsNull(latest.aovActual)
                     /\ Gt(Get(latest.cacActual), Get(latest.aovActual))
                  THEN Step(1, "fail", "static_cac_exceeds_aov")
                  ELSE Step(1, "pass", "static")

buildStep2LastWins(latest) ==
    IF IsNull(latest.cpm) /\ IsNull(latest.ctr) /\ IsNull(latest.frequency)
    THEN Step(2, "no_data", "missing")
    ELSE LET s0 == "pass"
             s1 == IF ~IsNull(latest.cpm) /\ Gt(Get(latest.cpm), R(CPM_WARN))
                   THEN "warning" ELSE s0
             s2 == IF IsNull(latest.ctr) THEN s1
                   ELSE IF Lt(Get(latest.ctr), CTR_FAIL) THEN "fail"
                   ELSE IF Lt(Get(latest.ctr), CTR_WARN) THEN "warning"
                   ELSE s1
             s3 == IF IsNull(latest.frequency) THEN s2
                   ELSE IF Gt(Get(latest.frequency), R(FREQ_FAIL)) THEN "fail"
                   ELSE IF Gt(Get(latest.frequency), R(FREQ_WARN)) THEN "warning"
                   ELSE s2
         IN  Step(2, s3, "findings")

buildStep2(latest) ==
    IF IsNull(latest.cpm) /\ IsNull(latest.ctr) /\ IsNull(latest.frequency)
    THEN Step(2, "no_data", "missing")
    ELSE LET s0 == "pass"
             s1 == IF ~IsNull(latest.cpm) /\ Gt(Get(latest.cpm), R(CPM_WARN))
                   THEN "warning" ELSE s0
             s2 == IF IsNull(latest.ctr) THEN s1
                   ELSE IF Lt(Get(latest.ctr), CTR_FAIL) THEN "fail"
                   ELSE IF Lt(Get(latest.ctr), CTR_WARN) THEN "warning"
                   ELSE s1
             s3 == IF IsNull(latest.frequency) THEN s2
                   ELSE IF Gt(Get(latest.frequency), R(FREQ_FAIL)) THEN "fail"
                   ELSE IF Gt(Get(latest.frequency), R(FREQ_WARN))
                        THEN (IF s2 # "fail" THEN "warning" ELSE s2)
                   ELSE s2
         IN  Step(2, s3, "findings")

\* ratio.toFixed(2) is evaluated in every branch: a null ratio throws
buildStep3(latest) ==
    IF IsNull(latest.metaClicks) \/ IsNull(latest.shopifySessions)
    THEN Step(3, "no_data", "missing")
    ELSE LET ratio == latest.clickSessionRatio
         IN  IF IsNull(ratio) THEN Thrown
             ELSE IF Gt(ToNumber(ratio), RATIO_FAIL) THEN Step(3, "fail", "major_leakage")
             ELSE IF Gt(ToNumber(ratio), RATIO_WARN) THEN Step(3, "warning", "moderate_loss")
             ELSE Step(3, "pass", "clean")

buildStep4(latest, prev) ==
    IF IsNull(latest.cvr)
    THEN Step(4, "no_data", "missing")
    ELSE LET wow == IF ~IsNull(Opt(prev, "cvr")) THEN "_wow" ELSE ""
         IN  IF Lt(Get(latest.cvr), CVR_FAIL) THEN Step(4, "fail", "below_floor" \o wow)
             ELSE IF Lt(Get(latest.cvr), CVR_WARN) THEN Step(4, "warning", "mediocre" \o wow)
             ELSE Step(4, "pass", "solid" \o wow)

\* pva.toFixed(0) builds the finding: a null countPva throws
buildStep5(latest) ==
    IF IsNull(latest.countActual) \/ IsNull(latest.countForecast)
    THEN Step(5, "no_data", "missing")
    ELSE LET p == latest.countPva
             status == IF Ge(ToNumber(p), R(STEP5_PASS)) THEN "pass"
                       ELSE IF Ge(ToNumber(p), R(STEP5_WARN)) THEN "warning"
                       ELSE "fail"
         IN  IF IsNull(p) THEN Thrown ELSE Step(5, status, "count_vs_forecast")

\* (a && b) ? x - y : 0
gapOf(a, b, x, y) == IF Truthy(a) /\ Truthy(b) THEN Sub(Get(x), Get(y)) ELSE R(0)

buildStep6(latest) ==
    IF IsNull(latest.aovActual) \/ IsNull(latest.cacActual) \/ IsNull(latest.cmActual)
    THEN Step(6, "no_data", "missing")
    ELSE LET unitCmV == ToNumber(latest.unitCmActual)
             status == IF Ge(unitCmV, R(0)) THEN "pass"
                       ELSE IF Gt(unitCmV, R(STEP6_FAIL)) THEN "warning"
                       ELSE "fail"
             cacGap == gapOf(latest.cacActual, latest.cacForecast,
                             latest.cacActual, latest.cacForecast)
             aovGap == gapOf(latest.aovForecast, latest.aovActual,
                             latest.aovForecast, latest.aovActual)
             leak == IF Gt(cacGap, aovGap) THEN "leak_cac_overspend"
                     ELSE IF Gt(aovGap, R(0)) THEN "leak_aov_shortfall"
                     ELSE "no_leak"
         IN  Step(6, status, leak)

----------------------------------------------------------------------------
(* funnelDiagnostician: buildTier2Diagnosis, buildRCA, runModule2 *)

TIER2_STEPS == {2, 3, 4}

allStepsOf(steps) == steps

tier2StepsOf(steps) == SelectSeq(steps, LAMBDA s : s.step \in TIER2_STEPS)

WithStatusLastFirst(steps, status) ==
    LET sel == SelectSeq(steps, LAMBDA s : s.status = status)
    IN  [i \in 1..Len(sel) |-> sel[Len(sel) + 1 - i]]

WithStatus(steps, status) == SelectSeq(steps, LAMBDA s : s.status = status)

buildTier2Diagnosis(latest, steps) ==
    LET tier2Steps == tier2StepsOf(steps)
        row(s) ==
            IF s.status = "no_data" THEN [step |-> s.step, action |-> "Collect data"]
            ELSE IF s.status = "pass" THEN [step |-> s.step, action |-> "Monitor"]
            ELSE IF s.step = 2
            THEN [step |-> 2,
                  action |-> IF s.status = "fail" THEN "Fix immediately" ELSE "Investigate"]
            ELSE IF s.step = 3
            THEN [step |-> 3,
                  action |-> IF ~IsNull(latest.clickSessionRatio)
                                /\ Gt(Get(latest.clickSessionRatio), RATIO_FAIL)
                             THEN "Fix immediately" ELSE "Investigate"]
            ELSE [step |-> 4,
                  action |-> IF ~IsNull(latest.cvr) /\ Lt(Get(latest.cvr), CVR_FAIL)
                             THEN "Fix immediately" ELSE "Investigate"]
    IN  [i \in 1..Len(tier2Steps) |-> row(tier2Steps[i])]

\* which of rootCause's two sources step 2 uses: the issues found or primary.finding
step2RootCause(latest) ==
    IF \/ (~IsNull(latest.cpm) /\ Gt(Get(latest.cpm), R(CPM_WARN)))
       \/ (~IsNull(latest.ctr) /\ Lt(Get(latest.ctr), CTR_WARN))
       \/ (~IsNull(latest.frequency) /\ Gt(Get(latest.frequency), R(FREQ_WARN)))
    THEN "attention_issues" ELSE "primary_finding"

buildRCA(module1, steps) ==
    IF IsNull(module1.latestWeek) THEN Null
    ELSE
    LET latest == Get(module1.latestWeek)
        tier2Steps == tier2StepsOf(steps)
        t2Fails == WithStatus(tier2Steps, "fail")
        t2Warnings == WithStatus(tier2Steps, "warning")
        t2NoData == WithStatus(tier2Steps, "no_data")
        primary == IF Len(t2Fails) > 0 THEN t2Fails[1] ELSE t2Warnings[1]
        problemNames == t2Fails \o t2Warnings
        note == IF Len(problemNames) > 1 THEN "+multiple_breakpoints" ELSE ""
    IN  IF Len(t2NoData) = Len(tier2Steps)
        THEN Some([action |-> "collect_tier2_data", rootCause |-> "cannot_determine",
                   discussion |-> "no_funnel_to_diagnose", solve |-> "input_metrics",
                   doNotDo |-> "do_not_guess"])
        ELSE IF Len(t2Fails) = 0 /\ Len(t2Warnings) = 0
        THEN Some([action |-> "monitor_healthy", rootCause |-> "no_breakpoints",
                   discussion |-> "funnel_within_range", solve |-> "maintain",
                   doNotDo |-> "do_not_change"])
        ELSE IF primary.step = 2
        THEN Some([action |-> "fix_attention", rootCause |-> step2RootCause(latest),
                   discussion |-> "attention_first_domino" \o note,
                   solve |-> "rotate_creative", doNotDo |-> "do_not_scale_spend"])
        ELSE IF primary.step = 3
        THEN Some([action |-> "fix_click_leakage", rootCause |-> "click_session_ratio",
                   discussion |-> "system_issue" \o note,
                   solve |-> "audit_landing_page", doNotDo |-> "do_not_blame_traffic"])
        ELSE Some([action |-> "fix_conversion", rootCause |-> "cvr",
                   discussion |-> "traffic_innocent" \o note,
                   solve |-> "audit_offer", doNotDo |-> "do_not_blame_creative"])

allowedScopeOfCmOnly(verdict) ==
    IF verdict = "cm_problem" THEN "Leak hunting ONLY. Do NOT scale."
    ELSE IF verdict = "volume_problem" \/ verdict = "both"
    THEN "Volume growth allowed. CM is healthy."
    ELSE "No funnel issues flagged by economics."

allowedScopeOf(verdict) ==
    IF verdict = "cm_problem" \/ verdict = "both" THEN "Leak hunting ONLY. Do NOT scale."
    ELSE IF verdict = "volume_problem" THEN "Volume growth allowed. CM is healthy."
    ELSE "No funnel issues flagged by economics."

runModule2(module1) ==
    LET latestO == module1.latestWeek
        prev == prevOf(module1.weeks)
    IN  IF IsNull(latestO)
        THEN [allowed |-> FALSE, allowedScope |-> "No data", steps |-> <<>>,
              tier2Diagnosis |-> <<>>, rcaSummary |-> Null]
        ELSE
        LET latest == Get(latestO)
            steps == <<buildStep1(latest, prev), buildStep2(latest), buildStep3(latest),
                       buildStep4(latest, prev), buildStep5(latest), buildStep6(latest)>>
        IN  IF \E i \in 1..Len(steps) : steps[i] = Thrown THEN Thrown
            ELSE [allowed |-> module1.verdict # "neither",
                  allowedScope |-> allowedScopeOf(module1.verdict),
                  steps |-> steps,
                  tier2Diagnosis |-> buildTier2Diagnosis(latest, steps),
                  rcaSummary |-> buildRCA(module1, steps)]

----------------------------------------------------------------------------
(* Inputs of the evaluation: week sequences as fetchSheetData builds them   *)
(* (label and weekNum = position), fields drawn from small sets             *)

MaxWeeks == 4

LABELS == <<"28 Dec", "4 Jan", "11 Jan", "18 Jan", "25 Jan", "1 Feb">>

N(i) == Some(R(i))

OptOf(S) == {Null} \cup {Some(q) : q \in S}

Ints(S) == {R(i) : i \in S}

\* weeks[i] = {...EMPTY_WEEK, label, weekNum: i + 1}, then the parsed fields
Numbered(ws) == [i \in 1..Len(ws) |-> [ws[i] EXCEPT !.label = LABELS[i], !.weekNum = i]]

\* one week, every economic case of the anchor
EconWeeks ==
    {[adSpend |-> sp, cmActual |-> ca, cmForecast |-> cf, countActual |-> na,
      countForecast |-> nf, cacActual |-> cac, aovActual |-> aov] @@ EMPTY_WEEK :
        sp \in OptOf(Ints({100})),
        ca \in OptOf(Ints({-50, -10, -6, 50})),
        cf \in OptOf(Ints({-10, 0, 40})),
        na \in OptOf(Ints({0, 10, 20})),
        nf \in OptOf(Ints({-20, 0, 20})),
        cac \in OptOf(Ints({90, 100, 120})),
        aov \in OptOf(Ints({100}))}

\* weeks of a history: empty, spend only, CM only, and three volumes
HistoryPool ==
    {EMPTY_WEEK,
     [adSpend |-> N(100)] @@ EMPTY_WEEK,
     [cmActual |-> N(-50)] @@ EMPTY_WEEK,
     [adSpend |-> N(100), countActual |-> N(10), countForecast |-> N(20), cvr |-> N(2)]
        @@ EMPTY_WEEK,
     [adSpend |-> N(200), countActual |-> N(14), countForecast |-> N(20)] @@ EMPTY_WEEK,
     [adSpend |-> N(100), countActual |-> N(20), countForecast |-> N(20), cvr |-> N(3)]
        @@ EMPTY_WEEK}

HistoryInputs == UNION {[1..n -> HistoryPool] : n \in 1..MaxWeeks}

\* one week, the funnel cases of steps 2-5
FunnelWeeks ==
    {[adSpend |-> N(100), countActual |-> na, countForecast |-> nf, metaClicks |-> mc,
      shopifySessions |-> ss, cpm |-> cpm, ctr |-> ctr, cvr |-> cvr] @@ EMPTY_WEEK :
        na \in OptOf(Ints({10})),
        nf \in OptOf(Ints({0, 20})),
        mc \in OptOf(Ints({1000, 750, 650, 600, 500})),
        ss \in OptOf(Ints({0, 500})),
        cpm \in OptOf(Ints({35})),
        ctr \in OptOf({Q(1, 2), R(2)}),
        cvr \in OptOf(Ints({1, 2, 3}))}

AttentionWeeks ==
    {[adSpend |-> N(100), cpm |-> cpm, ctr |-> ctr, frequency |-> fr] @@ EMPTY_WEEK :
        cpm \in OptOf(Ints({20, 30, 35})),
        ctr \in OptOf({Q(1, 2), R(1), Q(5, 4), Q(3, 2), R(2)}),
        fr \in OptOf({R(1), R(2), Q(5, 2), R(3), R(4)})}

\* one week, the cases of the CAC and AOV gaps against plan
LeakWeeks ==
    {[adSpend |-> N(100), countActual |-> na, countForecast |-> N(20), cmActual |-> ca,
      cmForecast |-> N(40), cacActual |-> cac, cacForecast |-> cacf, aovActual |-> aov,
      aovForecast |-> aovf] @@ EMPTY_WEEK :
        na \in OptOf(Ints({0, 10})),
        ca \in OptOf(Ints({-600, -500, -50, 0, 50})),
        cac \in OptOf(Ints({90, 120})),
        cacf \in OptOf(Ints({0, 70, 100})),
        aov \in OptOf(Ints({80, 100})),
        aovf \in OptOf(Ints({0, 80, 130}))}

\* one week, the cases of the order count against its forecast
VolumeWeeks ==
    {[adSpend |-> N(100), countActual |-> na, countForecast |-> nf] @@ EMPTY_WEEK :
        na \in OptOf(Ints({0, 9, 10, 16, 17, 20})),
        nf \in OptOf(Ints({-20, 0, 20}))}

\* two weeks, the cases of the week-over-week change of spend and orders
TrendInputs ==
    {<<[adSpend |-> psp, countActual |-> pna] @@ EMPTY_WEEK,
       [adSpend |-> sp, countActual |-> na, cacActual |-> cac, aovActual |-> N(100)]
          @@ EMPTY_WEEK>> :
        psp \in OptOf(Ints({0, 100})),
        pna \in OptOf(Ints({0, 20})),
        sp \in OptOf(Ints({90, 100, 115, 120})),
        na \in OptOf(Ints({16, 20, 23, 30})),
        cac \in OptOf(Ints({120}))}

\* one week, the cases of total CM and order count against their forecasts
MirageWeeks ==
    {[adSpend |-> N(100), cmActual |-> ca, cmForecast |-> cf, countActual |-> na,
      countForecast |-> nf] @@ EMPTY_WEEK :
        ca \in OptOf(Ints({38, 39, 50})),
        cf \in OptOf(Ints({0, 40})),
        na \in OptOf(Ints({0, 9, 10})),
        nf \in OptOf(Ints({0, 20}))}

GovInputs ==
    {Numbered(ws) : ws \in HistoryInputs \cup TrendInputs}
    \cup {Numbered(<<w>>) : w \in EconWeeks \cup FunnelWeeks \cup AttentionWeeks
                                    \cup LeakWeeks \cup VolumeWeeks \cup MirageWeeks}

----------------------------------------------------------------------------
(* The evaluation pipeline on one input: runModule1, then runModule2 *)

appState == <<loading, error, syncing, pending, tier2Store, userOps, syncs>>

InitGov ==
    /\ weeks \in GovInputs
    /\ module1Result = Null
    /\ module2Result = Null
    /\ prevUsed = Null
    /\ loading = FALSE
    /\ error = Null
    /\ syncing = FALSE
    /\ pending = {}
    /\ tier2Store = Null
    /\ userOps = 0
    /\ syncs = 0
    /\ pc = "input"

RunModule1 ==
    /\ pc = "input"
    /\ module1Result' = Some(runModule1(weeks))
    /\ pc' = "governed"
    /\ UNCHANGED <<weeks, module2Result, prevUsed, appState>>

RunModule2 ==
    /\ pc = "governed"
    /\ Get(module1Result) # Thrown
    /\ module2Result' = Some(runModule2(Get(module1Result)))
    /\ prevUsed' = prevOf(Get(module1Result).weeks)
    /\ pc' = "diagnosed"
    /\ UNCHANGED <<weeks, module1Result, appState>>

NextGov == RunModule1 \/ RunModule2

SpecGov == InitGov /\ [][NextGov]_vars

----------------------------------------------------------------------------
(* What the claims speak of, read off the input `weeks` alone *)

Evaluated == pc \in {"governed", "diagnosed"} /\ ~IsNull(module1Result)

Returned1 == Evaluated /\ Get(module1Result) # Thrown

Present(w, f) == w[f] # Null

InputWeekHasData(w) ==
    Present(w, "adSpend") \/ Present(w, "cmActual") \/ Present(w, "countActual")

InputDataIdx == {i \in 1..Len(weeks) : InputWeekHasData(weeks[i])}

InputHasAnchor == InputDataIdx # {}

\* the last week with data, in input order
InputAnchorIdx == CHOOSE i \in InputDataIdx : \A j \in InputDataIdx : j <= i

InputAnchor == weeks[InputAnchorIdx]

\* cm / count, defined when both are present and count > 0
InputUnitCm(w, cm, count) ==
    IF Present(w, cm) /\ Present(w, count) /\ Get(w[count]).n > 0
    THEN Some(Q(Get(w[cm]).n * Get(w[count]).d, Get(w[cm]).d * Get(w[count]).n))
    ELSE Null

\* (a): planned loss, and the actual unit CM below twice the plan
InputCmCaseA ==
    LET a == InputUnitCm(InputAnchor, "cmActual", "countActual")
        f == InputUnitCm(InputAnchor, "cmForecast", "countForecast")
    IN  a # Null /\ f # Null /\ Get(f).n < 0
        /\ Get(a).n * Get(f).d < 2 * Get(f).n * Get(a).d

\* (b): plan non-negative, actual unit CM negative
InputCmCaseB ==
    LET a == InputUnitCm(InputAnchor, "cmActual", "countActual")
        f == InputUnitCm(InputAnchor, "cmForecast", "countForecast")
    IN  a # Null /\ f # Null /\ Get(f).n >= 0 /\ Get(a).n < 0

\* (c): CAC above AOV
InputCmCaseC ==
    /\ Present(InputAnchor, "cacActual") /\ Present(InputAnchor, "aovActual")
    /\ Lt(Get(InputAnchor.aovActual), Get(InputAnchor.cacActual))

InputCmProblem == InputHasAnchor /\ (InputCmCaseA \/ InputCmCaseB \/ InputCmCaseC)

\* the last three weeks with data, and those of them whose countPva is defined
InputRecentIdx == {i \in InputDataIdx : Cardinality({j \in InputDataIdx : j > i}) < 3}

InputPvaIdx ==
    {i \in InputRecentIdx :
        /\ Present(weeks[i], "countActual") /\ Present(weeks[i], "countForecast")
        /\ Get(weeks[i].countForecast).n # 0}

RECURSIVE InputPvaSum(_)
InputPvaSum(S) ==
    IF S = {} THEN R(0)
    ELSE LET i == CHOOSE k \in S : TRUE
             a == Get(weeks[i].countActual)
             f == Get(weeks[i].countForecast)
         IN  Add(Q(100 * a.n * f.d, a.d * f.n), InputPvaSum(S \ {i}))

\* the mean of the defined countPva of the last three weeks with data is below 70
InputVolumeProblem ==
    /\ InputPvaIdx # {}
    /\ Lt(InputPvaSum(InputPvaIdx), R(70 * Cardinality(InputPvaIdx)))

----------------------------------------------------------------------------
(* Claims C1-C5, C8: the Economic Governor *)

\* C1: runModule1 declares a CM problem (verdict cm_problem or both) exactly when,
\* at the anchor week, (a) the forecast unit CM is negative and the actual unit CM
\* is below twice the forecast, or (b) the forecast unit CM is non-negative and the
\* actual unit CM is negative, or (c) cacAovGap is positive; otherwise none.
C1_CmProblemExactlyWhen ==
    Returned1 =>
        ((Get(module1Result).verdict \in {"cm_problem", "both"}) <=> InputCmProblem)

\* a CM problem declared on the CAC/AOV gap alone, unit CM healthy (Scenario B)
C1_Witness ==
    /\ Returned1
    /\ Get(module1Result).verdict = "cm_problem"
    /\ InputCmCaseC /\ ~InputCmCaseA /\ ~InputCmCaseB
    /\ InputUnitCm(InputAnchor, "cmActual", "countActual") # Null
    /\ InputUnitCm(InputAnchor, "cmForecast", "countForecast") # Null

\* C2: runModule1 declares a volume problem (verdict volume_problem or both)
\* exactly when the mean of the defined countPva values among the last three
\* weeks with data is below 70; with no defined countPva there, none.
C2_VolumeProblemExactlyWhen ==
    Returned1 =>
        ((Get(module1Result).verdict \in {"volume_problem", "both"}) <=> InputVolumeProblem)

\* four weeks with data: the oldest, outside the window, would lift the mean to 70
C2_Witness ==
    /\ Returned1
    /\ Get(module1Result).verdict = "volume_problem"
    /\ Cardinality(InputDataIdx) = 4
    /\ Cardinality(InputPvaIdx) = 3
    /\ Present(weeks[1], "countActual")
    /\ Get(weeks[1].countActual) = Get(weeks[1].countForecast)

\* C3: the verdict is a total function of the two signals: both when the two
\* hold, cm_problem when only the CM problem holds, volume_problem when only the
\* volume problem holds, neither otherwise.
C3_VerdictIsFunctionOfSignals ==
    Returned1 =>
        Get(module1Result).verdict =
            (IF InputCmProblem /\ InputVolumeProblem THEN "both"
             ELSE IF InputCmProblem THEN "cm_problem"
             ELSE IF InputVolumeProblem THEN "volume_problem"
             ELSE "neither")

\* both signals hold and the verdict is both (Scenario A)
C3_Witness ==
    /\ Returned1
    /\ InputCmProblem /\ InputCmCaseA /\ InputVolumeProblem
    /\ Get(module1Result).verdict = "both"

\* C4: scalePermission is denied exactly when a CM problem exists (verdict
\* cm_problem or both) and allowed otherwise; no input yields another value.
C4_DeniedExactlyOnCmProblem ==
    Returned1 =>
        LET r == Get(module1Result)
        IN  /\ r.scalePermission \in {"denied", "allowed"}
            /\ (r.scalePermission = "denied") <=> (r.verdict \in {"cm_problem", "both"})
            /\ (r.scalePermission = "denied") <=> InputCmProblem

\* denied while a volume problem co-exists
C4_Witness ==
    /\ Returned1
    /\ Get(module1Result).verdict = "both"
    /\ Get(module1Result).scalePermission = "denied"
    /\ InputVolumeProblem

\* C5: latestWeek is the last week, in input order, that has adSpend, cmActual or
\* countActual, with its derived fields, however many empty weeks follow it.
C5_AnchorIsLastWeekWithData ==
    Returned1 =>
        IF InputHasAnchor
        THEN /\ Get(module1Result).latestWeek # Null
             /\ Get(Get(module1Result).latestWeek).weekNum = InputAnchorIdx
             /\ Get(Get(module1Result).latestWeek) = calcWeek(InputAnchor)
        ELSE Get(module1Result).latestWeek = Null

\* the anchor is week 2 of 4: a week with data before it, two empty weeks after it
C5_Witness ==
    /\ Returned1
    /\ Len(weeks) = 4
    /\ InputDataIdx = {1, 2}
    /\ Get(Get(module1Result).latestWeek).weekNum = 2

VERDICTS == {"cm_problem", "volume_problem", "both", "neither"}

\* C8: for every week sequence with at least one week with data, whatever is
\* missing, zero or negative, runModule1 returns a complete Module1Result with a
\* non-null latestWeek and never throws.
C8_RunModule1Total ==
    (Evaluated /\ InputHasAnchor) =>
        /\ Get(module1Result) # Thrown
        /\ LET r == Get(module1Result)
           IN  /\ DOMAIN r = {"verdict", "scalePermission", "scaleReason",
                              "verdictExplanation", "warnings", "cmMirage",
                              "cmMirageExplanation", "biggestLeak",
                              "biggestLeakDollars", "weeks", "latestWeek"}
               /\ r.verdict \in VERDICTS
               /\ r.scalePermission \in {"denied", "leak_hunt_only", "allowed"}
               /\ r.scaleReason \in {"losses", "grow_volume", "within_range"}
               /\ Len(r.warnings) = 3
               /\ r.cmMirage \in BOOLEAN
               /\ r.biggestLeak \in {"", "cac_overspend", "aov_shortfall"}
               /\ Len(r.weeks) = Len(weeks)
               /\ r.latestWeek # Null

\* a result for an anchor with a missing CAC, a zero count and a negative forecast
C8_Witness ==
    /\ Returned1 /\ InputHasAnchor
    /\ ~Present(InputAnchor, "cacActual")
    /\ InputAnchor.countActual = N(0)
    /\ InputAnchor.countForecast = N(-20)
    /\ InputAnchor.cmActual = N(-50)

----------------------------------------------------------------------------
(* Claims C6, C7: the Funnel Diagnostician *)

Diagnosed == pc = "diagnosed" /\ ~IsNull(module2Result)

\* C6: the prior week that steps 1 and 4 compare the anchor against is the entry
\* immediately before the anchor week in the input sequence (none when the anchor
\* is the first entry); never the anchor itself, never a week after it.
C6_PrevIsWeekBeforeAnchor ==
    (Diagnosed /\ InputHasAnchor) =>
        prevUsed = (IF InputAnchorIdx >= 2
                    THEN Some(calcWeek(weeks[InputAnchorIdx - 1])) ELSE Null)

\* C7: for every result of runModule1 with a non-null anchor, runModule2 returns
\* six steps and an RCA and does not throw, also when clickSessionRatio or
\* countPva is undefined because shopifySessions or countForecast is 0.
C7_RunModule2NeverThrows ==
    (Diagnosed /\ Get(module1Result).latestWeek # Null) =>
        /\ Get(module2Result) # Thrown
        /\ Len(Get(module2Result).steps) = 6
        /\ Get(module2Result).rcaSummary # Null

----------------------------------------------------------------------------
(* Claim C10: the plan-vs-actual value *)

PVA_PAIRS ==
    {<<"cmActual", "cmForecast", "cmPva">>, <<"countActual", "countForecast", "countPva">>,
     <<"aovActual", "aovForecast", "aovPva">>, <<"cacActual", "cacForecast", "cacPva">>}

\* the (actual, forecast, plan-vs-actual) triples of the evaluated weeks
PvaTriples ==
    {<<weeks[i][t[1]], weeks[i][t[2]], Get(module1Result).weeks[i][t[3]]>> :
        i \in 1..Len(weeks), t \in PVA_PAIRS}

PvaValueIs(a, f, p) == Get(p) = Q(100 * Get(a).n * Get(f).d, Get(a).d * Get(f).n)

\* C10, as stated: plan-vs-actual is undefined if and only if forecast is
\* undefined or exactly 0; otherwise it equals 100 x actual / forecast.
C10_UndefinedIffForecastMissingOrZero ==
    Returned1 =>
        \A t \in PvaTriples :
            /\ (t[3] = Null) <=> (t[2] = Null \/ Get(t[2]).n = 0)
            /\ (t[3] # Null) => PvaValueIs(t[1], t[2], t[3])

\* C10, amended: plan-vs-actual is undefined if and only if actual is undefined or
\* forecast is undefined or exactly 0; otherwise it equals 100 x actual / forecast,
\* also when actual is 0 or negative.
C10_UndefinedIffOperandMissingOrZeroForecast ==
    Returned1 =>
        \A t \in PvaTriples :
            /\ (t[3] = Null) <=> (t[1] = Null \/ t[2] = Null \/ Get(t[2]).n = 0)
            /\ (t[3] # Null) => PvaValueIs(t[1], t[2], t[3])

\* a zero actual and a negative actual each give a defined value, and a missing
\* actual with a usable forecast gives none
C10_Witness ==
    /\ Returned1
    /\ <<N(0), N(20), N(0)>> \in PvaTriples
    /\ <<N(-50), N(40), N(-125)>> \in PvaTriples
    /\ <<Null, N(100), Null>> \in PvaTriples

----------------------------------------------------------------------------
(* App: Tier 2 storage (mergeTier2, saveTier2) *)

\* tier2Map: week label -> the Tier 2 fields that are set.  JSON.stringify followed
\* by JSON.parse returns the same labels, keys and finite numbers.
EmptyMap == <<>>

mergeTier2(sheetWeeks, store) ==
    IF IsNull(store) THEN sheetWeeks
    ELSE LET tier2Map == Get(store)
             mergeOne(w) ==
                 IF w.label \notin DOMAIN tier2Map THEN w
                 ELSE LET t2 == tier2Map[w.label]
                      IN  [f \in DOMAIN w |->
                              IF f \in TIER2_FIELDS /\ f \in DOMAIN t2 /\ ~IsNull(t2[f])
                              THEN t2[f] ELSE w[f]]
         IN  [i \in 1..Len(sheetWeeks) |-> mergeOne(sheetWeeks[i])]

\* the entry saveTier2 builds for one week: its non-null Tier 2 fields
tier2Entry(w) == [f \in {k \in TIER2_FIELDS : ~IsNull(w[k])} |-> w[f]]

\* tier2Map[w.label] = entry for every week with Tier 2 data, a later week with
\* the same label overwriting an earlier one
saveTier2(ws) ==
    LET saved == {i \in 1..Len(ws) : DOMAIN tier2Entry(ws[i]) # {}}
        labels == {ws[i].label : i \in saved}
        lastOf(l) == CHOOSE i \in saved :
                        /\ ws[i].label = l
                        /\ \A j \in saved : ws[j].label = l => j <= i
    IN  Some([l \in labels |-> tier2Entry(ws[lastOf(l)])])

----------------------------------------------------------------------------
(* App: what one render computes from `weeks` *)

hasDataAny(ws) == Len(ws) > 0

\* weeks.some(w => w.adSpend != null || w.cmActual != null || w.countActual != null)
hasData(ws) ==
    \E i \in 1..Len(ws) :
        ~IsNull(ws[i].adSpend) \/ ~IsNull(ws[i].cmActual) \/ ~IsNull(ws[i].countActual)

module1Memo(ws) == IF ~hasData(ws) THEN Null ELSE Some(runModule1(ws))

\* a memo that keeps the Diagnostician result it already holds (a variant in which
\* an evaluation depends on the evaluations before it)
module2MemoKept(m1) ==
    IF ~IsNull(module2Result) THEN module2Result
    ELSE IF IsNull(m1) THEN Null
    ELSE IF Get(m1) = Thrown THEN Some(Thrown)
    ELSE Some(runModule2(Get(m1)))

module2Memo(m1) ==
    IF IsNull(m1) THEN Null
    ELSE IF Get(m1) = Thrown THEN Some(Thrown)
    ELSE Some(runModule2(Get(m1)))

prevMemo(m1) ==
    IF IsNull(m1) \/ Get(m1) = Thrown THEN Null ELSE prevOf(Get(m1).weeks)

\* a render that throws unmounts the App: nothing is shown, no effect runs
Crashed == module2Result = Some(Thrown)

\* the content of <main>
View ==
    IF Crashed THEN "crashed"
    ELSE IF loading THEN "loading"
    ELSE IF ~IsNull(module1Result) THEN "results"
    ELSE "insufficient"

\* setWeeks(ws): the render recomputes both memos, then the effect saves Tier 2
\* when ws is not empty
SetWeeks(ws) ==
    /\ weeks' = ws
    /\ module1Result' = module1Memo(ws)
    /\ module2Result' = module2Memo(module1Result')
    /\ prevUsed' = prevMemo(module1Result')
    /\ tier2Store' = IF module2Result' # Some(Thrown) /\ Len(ws) > 0
                     THEN saveTier2(ws) ELSE tier2Store

----------------------------------------------------------------------------
(* App: the sheets a fetch can return, the texts a user can type or paste *)

MaxUserOps == 1
MaxSyncs == 1

SCENARIO_A ==
    [adSpend |-> N(100), cmActual |-> N(-50), cmForecast |-> N(-10),
     countActual |-> N(10), countForecast |-> N(20), aovActual |-> N(50),
     aovForecast |-> N(80), cacActual |-> N(90), cacForecast |-> N(70)] @@ EMPTY_WEEK

HEALTHY ==
    [adSpend |-> N(200), cmActual |-> N(100), cmForecast |-> N(40),
     countActual |-> N(20), countForecast |-> N(20), aovActual |-> N(100),
     aovForecast |-> N(80), cacActual |-> N(70), cacForecast |-> N(70)] @@ EMPTY_WEEK

FORECAST_ONLY ==
    [cmForecast |-> N(-10), countForecast |-> N(20), aovForecast |-> N(80),
     cacForecast |-> N(70)] @@ EMPTY_WEEK

ZERO_FORECAST ==
    [adSpend |-> N(100), countActual |-> N(10), countForecast |-> N(0)] @@ EMPTY_WEEK

\* a sheet whose header row has the same date text in two columns (the labels are
\* the trimmed header cells, taken as they come): "28 Dec" of two different years
REPEATED_LABEL ==
    [i \in 1..2 |-> [Numbered(<<SCENARIO_A, EMPTY_WEEK>>)[i] EXCEPT !.label = LABELS[1]]]

\* what fetchSheetData can resolve to: at least one week column, Tier 2 fields null
SheetInputs ==
    {Numbered(<<EMPTY_WEEK>>),
     Numbered(<<FORECAST_ONLY, EMPTY_WEEK>>),
     Numbered(<<SCENARIO_A, HEALTHY>>),
     Numbered(<<ZERO_FORECAST>>),
     REPEATED_LABEL}

\* what fetchSheetData can reject with
FETCH_ERRORS == {"Failed to fetch sheet: 500", "Sheet has no data"}

\* what an earlier session can have left in localStorage
InitialStores == {Null, Some([l \in {"28 Dec"} |-> [f \in {"cvr"} |-> N(2)]])}

RAW_CELLS == {"", "0", "2", "abc"}

\* parseFloat of the texts of RAW_CELLS and of the pasted grids: <<>> stands for NaN
parseFloatOf(raw) ==
    CASE raw = "0" -> N(0)
      [] raw = "2" -> N(2)
      [] raw = "35" -> N(35)
      [] OTHER -> Null

\* updateCell: raw === '' ? null : parseFloat(...), NaN becoming null
cellValue(raw) == IF raw = "" THEN Null ELSE parseFloatOf(raw)

\* parseCell: '' and '-' are null, else parseFloat, NaN becoming null
parseCell(raw) == IF raw = "" \/ raw = "-" THEN Null ELSE parseFloatOf(raw)

TIER2_ROWS == <<"cpm", "ctr", "cpc", "frequency", "metaClicks", "shopifySessions", "cvr">>

\* pasted grids (rows of cells) with more than one cell, and bulk-pasted grids
PASTE_GRIDS == {<<<<"35", "abc">>>>, <<<<"2">>, <<"-">>>>}
BULK_GRIDS == {<<<<"0">>>>, <<<<"35", "2", "2">>>>}

----------------------------------------------------------------------------
(* App: operations *)

Init ==
    /\ weeks = <<>>
    /\ module1Result = Null
    /\ module2Result = Null
    /\ prevUsed = Null
    /\ loading = TRUE
    /\ error = Null
    /\ syncing = FALSE
    /\ pending = {"mount"}
    /\ tier2Store \in InitialStores
    /\ userOps = 0
    /\ syncs = 0
    /\ pc = "app"

\* loadFromSheet resolves (mount): setWeeks(merged), setError(null); finally
\* setLoading(false)
MountLoaded(sheetWeeks) ==
    /\ pc = "app" /\ ~Crashed
    /\ "mount" \in pending
    /\ SetWeeks(mergeTier2(sheetWeeks, tier2Store))
    /\ error' = Null
    /\ loading' = FALSE
    /\ pending' = pending \ {"mount"}
    /\ UNCHANGED <<syncing, userOps, syncs, pc>>

\* a rejected mount fetch after which the effect saves without looking at
\* weeks.length (a variant that writes the store while weeks is empty)
MountFailedSaving(message) ==
    /\ pc = "app" /\ ~Crashed
    /\ "mount" \in pending
    /\ error' = Some(message)
    /\ loading' = FALSE
    /\ pending' = pending \ {"mount"}
    /\ tier2Store' = saveTier2(weeks)
    /\ UNCHANGED <<weeks, module1Result, module2Result, prevUsed,
                   syncing, userOps, syncs, pc>>

\* loadFromSheet catches (mount): setError(message); finally setLoading(false)
MountFailed(message) ==
    /\ pc = "app" /\ ~Crashed
    /\ "mount" \in pending
    /\ error' = Some(message)
    /\ loading' = FALSE
    /\ pending' = pending \ {"mount"}
    /\ UNCHANGED <<weeks, module1Result, module2Result, prevUsed, tier2Store,
                   syncing, userOps, syncs, pc>>

\* handleSync, up to its await: the button is disabled while syncing
HandleSync ==
    /\ pc = "app" /\ ~Crashed
    /\ ~syncing
    /\ syncs < MaxSyncs
    /\ syncing' = TRUE
    /\ pending' = pending \cup {"sync"}
    /\ syncs' = syncs + 1
    /\ UNCHANGED <<weeks, module1Result, module2Result, prevUsed, tier2Store,
                   loading, error, userOps, pc>>

\* handleSync, after its await, the fetch having resolved
SyncLoaded(sheetWeeks) ==
    /\ pc = "app" /\ ~Crashed
    /\ "sync" \in pending
    /\ SetWeeks(mergeTier2(sheetWeeks, tier2Store))
    /\ error' = Null
    /\ syncing' = FALSE
    /\ pending' = pending \ {"sync"}
    /\ UNCHANGED <<loading, userOps, syncs, pc>>

\* a rejected sync that also empties the weeks (a variant that loses the data on
\* a failed fetch)
SyncFailedClearing(message) ==
    /\ pc = "app" /\ ~Crashed
    /\ "sync" \in pending
    /\ SetWeeks(<<>>)
    /\ error' = Some(message)
    /\ syncing' = FALSE
    /\ pending' = pending \ {"sync"}
    /\ UNCHANGED <<loading, userOps, syncs, pc>>

\* handleSync, after its await, the fetch having been rejected
SyncFailed(message) ==
    /\ pc = "app" /\ ~Crashed
    /\ "sync" \in pending
    /\ error' = Some(message)
    /\ syncing' = FALSE
    /\ pending' = pending \ {"sync"}
    /\ UNCHANGED <<weeks, module1Result, module2Result, prevUsed, tier2Store,
                   loading, userOps, syncs, pc>>

\* the Module2 component, which holds the Tier 2 inputs, is rendered
Module2Shown == pc = "app" /\ View = "results" /\ ~IsNull(module2Result)

\* Module2.updateCell(weekIdx, key, raw)
UpdateCell(weekIdx, key, raw) ==
    /\ Module2Shown
    /\ userOps < MaxUserOps
    /\ SetWeeks([weeks EXCEPT ![weekIdx][key] = cellValue(raw)])
    /\ userOps' = userOps + 1
    /\ UNCHANGED <<loading, error, syncing, pending, syncs, pc>>

\* applyGrid keeping only the weeks the grid reaches (a variant that changes the
\* number of weeks)
gridAppliedTruncating(ws, grid, startRow, startCol) ==
    LET reach == startCol + Len(grid[1])
        kept == IF reach < Len(ws) THEN reach ELSE Len(ws)
    IN  [i \in 1..kept |->
            [k \in DOMAIN ws[i] |->
                IF k = TIER2_ROWS[startRow + 1] /\ i > startCol
                THEN parseCell(grid[1][i - startCol]) ELSE ws[i][k]]]

\* the weeks applyGrid builds: cell (r, c) of the grid goes to row startRow + r of
\* TIER2_ROWS and week startCol + c, cells beyond the rows or the weeks dropped
gridApplied(ws, grid, startRow, startCol) ==
    LET hit(i, k) ==
            {<<r, c>> \in (1..Len(grid)) \X (1..3) :
                /\ c <= Len(grid[r])
                /\ startRow + r <= Len(TIER2_ROWS) /\ TIER2_ROWS[startRow + r] = k
                /\ startCol + c = i}
        cell(i, k) == CHOOSE rc \in hit(i, k) : TRUE
    IN  [i \in 1..Len(ws) |->
            [k \in DOMAIN ws[i] |->
                IF hit(i, k) # {}
                THEN parseCell(grid[cell(i, k)[1]][cell(i, k)[2]])
                ELSE ws[i][k]]]

\* Module2.handleCellPaste of a multi-cell grid at (rowIdx, colIdx), and
\* handleBulkApply of a grid at (0, 0): applyGrid
ApplyGrid(grid, startRow, startCol) ==
    /\ Module2Shown
    /\ userOps < MaxUserOps
    /\ SetWeeks(gridApplied(weeks, grid, startRow, startCol))
    /\ userOps' = userOps + 1
    /\ UNCHANGED <<loading, error, syncing, pending, syncs, pc>>

\* Module2.handleClearTier2
HandleClearTier2 ==
    /\ Module2Shown
    /\ userOps < MaxUserOps
    /\ SetWeeks([i \in 1..Len(weeks) |->
                    [k \in DOMAIN weeks[i] |->
                        IF k \in TIER2_FIELDS THEN Null ELSE weeks[i][k]]])
    /\ userOps' = userOps + 1
    /\ UNCHANGED <<loading, error, syncing, pending, syncs, pc>>

Next ==
    \/ \E sheetWeeks \in SheetInputs : MountLoaded(sheetWeeks)
    \/ \E message \in FETCH_ERRORS : MountFailed(message)
    \/ HandleSync
    \/ \E sheetWeeks \in SheetInputs : SyncLoaded(sheetWeeks)
    \/ \E message \in FETCH_ERRORS : SyncFailed(message)
    \/ \E weekIdx \in 1..Len(weeks), key \in TIER2_FIELDS, raw \in RAW_CELLS :
          UpdateCell(weekIdx, key, raw)
    \/ \E grid \in PASTE_GRIDS, startRow \in 0..6, startCol \in 0..(Len(weeks) - 1) :
          ApplyGrid(grid, startRow, startCol)
    \/ \E grid \in BULK_GRIDS : ApplyGrid(grid, 0, 0)
    \/ HandleClearTier2

Spec == Init /\ [][Next]_vars

----------------------------------------------------------------------------
(* App: claims *)

WeeksHaveData == \E i \in 1..Len(weeks) : InputWeekHasData(weeks[i])

\* runModule1 has been invoked only on weeks of which one has data, and every
\* Module1Result handed to runModule2 has an anchor week
C9_InvokedOnlyWithData ==
    /\ ~IsNull(module1Result) => WeeksHaveData
    /\ ~IsNull(module2Result) =>
          /\ ~IsNull(module1Result)
          /\ Get(module1Result) # Thrown => ~IsNull(Get(module1Result).latestWeek)

----------------------------------------------------------------------------
(* Claims C11, C12: the derived weeks *)

UNIT_CM_TRIPLES ==
    {<<"cmActual", "countActual", "unitCmActual">>,
     <<"cmForecast", "countForecast", "unitCmForecast">>}

\* C11: for every week, unitCmActual is defined exactly when cmActual is present
\* and countActual is present and greater than 0, and then equals cmActual /
\* countActual; unitCmForecast likewise on cmForecast and countForecast.  A zero
\* or negative count gives no unit CM, and the evaluation does not fail on it.
C11_UnitCmExactlyWhenPositiveCount ==
    Evaluated =>
        /\ Get(module1Result) # Thrown
        /\ \A i \in 1..Len(weeks), t \in UNIT_CM_TRIPLES :
              LET cm == weeks[i][t[1]]
                  count == weeks[i][t[2]]
                  u == Get(module1Result).weeks[i][t[3]]
              IN  /\ (u # Null) <=> (cm # Null /\ count # Null /\ Get(count).n > 0)
                  /\ (u # Null) =>
                        Get(u) = Q(Get(cm).n * Get(count).d, Get(cm).d * Get(count).n)

\* one week with a unit CM of -50 / 10 = -5, and with a forecast CM whose forecast
\* count is negative and gives none; another field pair with a count of 0
C11_Witness ==
    /\ Returned1
    /\ \E i \in 1..Len(weeks) :
          /\ weeks[i].cmActual = N(-50) /\ weeks[i].countActual = N(10)
          /\ Get(module1Result).weeks[i].unitCmActual = N(-5)
          /\ weeks[i].cmForecast = N(-10)
          /\ weeks[i].countForecast \in {N(-20), N(0)}
          /\ Get(module1Result).weeks[i].unitCmForecast = Null

\* C12: the weeks returned by runModule1 are as many as the input weeks, and the
\* i-th carries the raw fields of the i-th input week unchanged, weeks without
\* data included: nothing is reordered, filtered out or merged.
C12_WeeksKeepPlaceAndRawFields ==
    Returned1 =>
        /\ Len(Get(module1Result).weeks) = Len(weeks)
        /\ \A i \in 1..Len(weeks) :
              \A f \in DOMAIN weeks[i] : Get(module1Result).weeks[i][f] = weeks[i][f]

\* four weeks, of which the second and the last have no data, returned in place
C12_Witness ==
    /\ Returned1
    /\ Len(weeks) = 4
    /\ InputDataIdx = {1, 3}
    /\ Len(Get(module1Result).weeks) = 4
    /\ Get(module1Result).weeks[2].label = LABELS[2]
    /\ ~InputWeekHasData(Get(module1Result).weeks[4])

----------------------------------------------------------------------------
(* Claims C13-C18: the six steps *)

STATUSES == {"pass", "fail", "warning", "no_data"}

\* runModule2 has returned a result for an anchor week
Returned2 == Diagnosed /\ InputHasAnchor /\ Get(module2Result) # Thrown

\* the six steps as runModule2 builds them for the anchor week, a step whose
\* builder throws included
BuiltSteps ==
    LET latest == Get(Get(module1Result).latestWeek)
        prev == prevOf(Get(module1Result).weeks)
    IN  <<buildStep1(latest, prev), buildStep2(latest), buildStep3(latest),
          buildStep4(latest, prev), buildStep5(latest), buildStep6(latest)>>

\* step n was built without throwing and, when runModule2 returned, is its n-th step
Built(n) ==
    /\ BuiltSteps[n] # Thrown
    /\ Get(module2Result) # Thrown => Get(module2Result).steps[n] = BuiltSteps[n]

\* C13: whenever an anchor week exists, runModule2 returns exactly six steps,
\* numbered 1, 2, 3, 4, 5, 6 in that order, each with a status among pass, fail,
\* warning and no_data.
C13_SixStepsInOrder ==
    (Diagnosed /\ InputHasAnchor) =>
        /\ Get(module2Result) # Thrown
        /\ Len(Get(module2Result).steps) = 6
        /\ \A n \in 1..6 :
              /\ Get(module2Result).steps[n].step = n
              /\ Get(module2Result).steps[n].status \in STATUSES

\* the percentage change from old to new, old not 0
PctChange(new, old) == Mul(Div(Sub(new, old), old), R(100))

\* the anchor and the prior week both have a spend and an order count, not 0 in
\* the prior week
TrendComparable ==
    /\ Diagnosed /\ InputHasAnchor
    /\ Present(InputAnchor, "adSpend") /\ Present(InputAnchor, "countActual")
    /\ prevUsed # Null
    /\ Present(Get(prevUsed), "adSpend") /\ ~IsZero(Get(Get(prevUsed).adSpend))
    /\ Present(Get(prevUsed), "countActual") /\ ~IsZero(Get(Get(prevUsed).countActual))

SpendChange == PctChange(Get(InputAnchor.adSpend), Get(Get(prevUsed).adSpend))

OrderChange == PctChange(Get(InputAnchor.countActual), Get(Get(prevUsed).countActual))

TrendGap == AbsQ(Sub(SpendChange, OrderChange))

\* fail if spend rose while orders did not, else warning
TrendFlag == IF Gt(SpendChange, R(0)) /\ Le(OrderChange, R(0)) THEN "fail" ELSE "warning"

MetricStatus(w, f) ==
    CASE f = "cpm" -> IF Gt(Get(w.cpm), R(30)) THEN "warning" ELSE "pass"
      [] f = "ctr" -> IF Lt(Get(w.ctr), R(1)) THEN "fail"
                      ELSE IF Lt(Get(w.ctr), Q(3, 2)) THEN "warning" ELSE "pass"
      [] f = "frequency" -> IF Gt(Get(w.frequency), R(3)) THEN "fail"
                            ELSE IF Gt(Get(w.frequency), R(2)) THEN "warning" ELSE "pass"

\* the statuses of the attention metrics that are present
AttentionStatuses(w) ==
    {MetricStatus(w, f) : f \in {g \in {"cpm", "ctr", "frequency"} : Present(w, g)}}

\* fail over warning over pass
Worst(S) == IF "fail" \in S THEN "fail" ELSE IF "warning" \in S THEN "warning" ELSE "pass"

\* C15: step 2 is no_data exactly when cpm, ctr and frequency are all missing;
\* otherwise its status is the worst of the statuses of the metrics present (CPM
\* > 30 warning; CTR < 1.0 fail, < 1.5 warning; frequency > 3 fail, > 2 warning;
\* else pass), so a later healthy metric never lowers an earlier status.
C15_Step2WorstOfPresentMetrics ==
    (Diagnosed /\ InputHasAnchor) =>
        /\ Built(2)
        /\ BuiltSteps[2].status =
              (IF AttentionStatuses(InputAnchor) = {} THEN "no_data"
               ELSE Worst(AttentionStatuses(InputAnchor)))

\* CTR 0.5 fails, the frequency 2.5 after it only warns, and the step stays fail
C15_Witness ==
    /\ Returned2
    /\ InputAnchor.ctr = Some(Q(1, 2))
    /\ InputAnchor.frequency = Some(Q(5, 2))
    /\ Get(module2Result).steps[2].status = "fail"

\* C16: step 3 is no_data exactly when metaClicks or shopifySessions is missing;
\* for every anchor week with both present it returns a status, decided by
\* clickSessionRatio where that is defined: fail above 1.5, warning above 1.2,
\* pass otherwise.
C16_Step3ByClickSessionRatio ==
    (Diagnosed /\ InputHasAnchor) =>
        LET w == InputAnchor
            both == Present(w, "metaClicks") /\ Present(w, "shopifySessions")
        IN  /\ Built(3)
            /\ BuiltSteps[3].status \in STATUSES
            /\ (BuiltSteps[3].status = "no_data") <=> ~both
            /\ (both /\ Gt(Get(w.shopifySessions), R(0))) =>
                  LET ratio == Div(Get(w.metaClicks), Get(w.shopifySessions))
                  IN  BuiltSteps[3].status =
                         (IF Gt(ratio, Q(3, 2)) THEN "fail"
                          ELSE IF Gt(ratio, Q(6, 5)) THEN "warning" ELSE "pass")

\* C17: step 5 is no_data exactly when countActual or countForecast is missing;
\* for every anchor week with both present it returns a status, decided by
\* countPva where that is defined: pass at 85 or more, warning from 50 to below
\* 85, fail below 50.
C17_Step5ByCountPva ==
    (Diagnosed /\ InputHasAnchor) =>
        LET w == InputAnchor
            both == Present(w, "countActual") /\ Present(w, "countForecast")
        IN  /\ Built(5)
            /\ BuiltSteps[5].status \in STATUSES
            /\ (BuiltSteps[5].status = "no_data") <=> ~both
            /\ (both /\ ~IsZero(Get(w.countForecast))) =>
                  LET p == Mul(Div(Get(w.countActual), Get(w.countForecast)), R(100))
                  IN  BuiltSteps[5].status =
                         (IF Ge(p, R(85)) THEN "pass"
                          ELSE IF Ge(p, R(50)) THEN "warning" ELSE "fail")

\* C18: step 6 is no_data exactly when aovActual, cacActual or cmActual is
\* missing; otherwise it is pass when unitCmActual >= 0, warning when -50 <
\* unitCmActual < 0, fail when unitCmActual <= -50: a pass, warning or fail comes
\* from a defined unitCmActual of the anchor week only.
C18_Step6ByDefinedUnitCm ==
    (Diagnosed /\ InputHasAnchor) =>
        LET w == InputAnchor
            all3 == Present(w, "aovActual") /\ Present(w, "cacActual")
                    /\ Present(w, "cmActual")
            u == InputUnitCm(w, "cmActual", "countActual")
        IN  /\ Built(6)
            /\ (BuiltSteps[6].status = "no_data") <=> ~all3
            /\ all3 =>
                  /\ u # Null
                  /\ BuiltSteps[6].status =
                        (IF Ge(Get(u), R(0)) THEN "pass"
                         ELSE IF Gt(Get(u), R(-50)) THEN "warning" ELSE "fail")

----------------------------------------------------------------------------
(* Claims C19, C20: the root-cause summary *)

\* the status of step n in the result runModule2 returned
StatusOf(n) == Get(module2Result).steps[n].status

\* the steps among 2, 3 and 4 that are failed, and those failed or warning
FunnelFails == {n \in {2, 3, 4} : StatusOf(n) = "fail"}

FunnelUnhealthy == {n \in {2, 3, 4} : StatusOf(n) \in {"fail", "warning"}}

Lowest(S) == CHOOSE n \in S : \A m \in S : n <= m

RcaOf == Get(Get(module2Result).rcaSummary)

PRIMARY_ACTIONS == {"fix_attention", "fix_click_leakage", "fix_conversion"}

\* C19: with an anchor week, the RCA is the collect-data summary exactly when
\* steps 2, 3 and 4 are all no_data; otherwise the healthy-funnel summary exactly
\* when none of steps 2-4 is fail or warning; otherwise a primary-cause summary.
\* Which of the three it is depends on the statuses of steps 2-4 alone.
C19_RcaCaseBySteps2To4 ==
    Returned2 =>
        /\ Get(module2Result).rcaSummary # Null
        /\ IF \A n \in {2, 3, 4} : StatusOf(n) = "no_data"
           THEN RcaOf.action = "collect_tier2_data"
           ELSE IF FunnelUnhealthy = {}
           THEN RcaOf.action = "monitor_healthy"
           ELSE RcaOf.action \in PRIMARY_ACTIONS

\* a healthy-funnel summary although step 5 is not healthy: step 2 passes, steps 3
\* and 4 have no data
C19_Witness ==
    /\ Returned2
    /\ StatusOf(2) = "pass" /\ StatusOf(3) = "no_data" /\ StatusOf(4) = "no_data"
    /\ StatusOf(5) \in {"warning", "fail"}
    /\ RcaOf.action = "monitor_healthy"

\* C20: in the primary-cause case the primary step is the lowest-numbered failed
\* step among 2-4 or, when none failed, the lowest-numbered warning step; the
\* action is the attention one for step 2, the click-leakage one for step 3, the
\* conversion one for step 4; the multiple-breakpoints note ends the discussion
\* exactly when more than one of steps 2-4 is fail or warning.
C20_PrimaryStepAndNote ==
    (Returned2 /\ FunnelUnhealthy # {}) =>
        LET primary == IF FunnelFails # {} THEN Lowest(FunnelFails)
                       ELSE Lowest(FunnelUnhealthy)
            note == IF Cardinality(FunnelUnhealthy) > 1 THEN "+multiple_breakpoints"
                    ELSE ""
        IN  /\ RcaOf.action = (CASE primary = 2 -> "fix_attention"
                                 [] primary = 3 -> "fix_click_leakage"
                                 [] primary = 4 -> "fix_conversion")
            /\ RcaOf.discussion = (CASE primary = 2 -> "attention_first_domino"
                                     [] primary = 3 -> "system_issue"
                                     [] primary = 4 -> "traffic_innocent") \o note

\* step 2 only warns, steps 3 and 4 fail: the primary step is 3, the first failed
\* one, and the note is appended
C20_Witness ==
    /\ Returned2
    /\ StatusOf(2) = "warning" /\ StatusOf(3) = "fail" /\ StatusOf(4) = "fail"
    /\ RcaOf.action = "fix_click_leakage"
    /\ RcaOf.discussion = "system_issue+multiple_breakpoints"

----------------------------------------------------------------------------
(* Claims C21-C24: allowed scope, mirage, biggest leak *)

\* C21: allowedScope depends on the verdict only: the leak-hunting-only text for
\* cm_problem and both, the volume-growth-allowed text for volume_problem, the
\* no-issues-flagged text for neither; so two Governor results with the same
\* verdict and an anchor week get the same allowedScope.
C21_AllowedScopeByVerdict ==
    Returned2 =>
        LET verdict == Get(module1Result).verdict
        IN  Get(module2Result).allowedScope =
               (CASE verdict \in {"cm_problem", "both"} -> "Leak hunting ONLY. Do NOT scale."
                  [] verdict = "volume_problem" -> "Volume growth allowed. CM is healthy."
                  [] verdict = "neither" -> "No funnel issues flagged by economics.")

\* a result whose verdict is both, with the leak-hunting-only scope
C21_Witness ==
    /\ Returned2
    /\ Get(module1Result).verdict = "both"
    /\ Get(module2Result).allowedScope = "Leak hunting ONLY. Do NOT scale."

\* 100 x actual / forecast of the anchor week, where defined
InputPva(actual, forecast) ==
    IF Present(InputAnchor, actual) /\ Present(InputAnchor, forecast)
       /\ ~IsZero(Get(InputAnchor[forecast]))
    THEN Some(Mul(Div(Get(InputAnchor[actual]), Get(InputAnchor[forecast])), R(100)))
    ELSE Null

\* at the anchor week cmPva is defined and above 95, countPva defined and below 50
InputMirage ==
    /\ InputHasAnchor
    /\ InputPva("cmActual", "cmForecast") # Null
    /\ Gt(Get(InputPva("cmActual", "cmForecast")), R(95))
    /\ InputPva("countActual", "countForecast") # Null
    /\ Lt(Get(InputPva("countActual", "countForecast")), R(50))

\* C22: cmMirage is true exactly when, at the anchor week, cmPva is defined and
\* exceeds 95 while countPva is defined and is under 50; cmMirageExplanation is
\* non-null exactly when cmMirage is true.
C22_MirageExactlyWhen ==
    Evaluated =>
        /\ Get(module1Result) # Thrown
        /\ Get(module1Result).cmMirage = InputMirage
        /\ (Get(module1Result).cmMirageExplanation # Null) <=> Get(module1Result).cmMirage

\* CM at 125% of forecast on 45% of the forecast volume: a mirage, explained
C22_Witness ==
    /\ Returned1 /\ InputHasAnchor
    /\ InputAnchor.cmActual = N(50) /\ InputAnchor.cmForecast = N(40)
    /\ InputAnchor.countActual = N(9) /\ InputAnchor.countForecast = N(20)
    /\ Get(module1Result).cmMirage
    /\ Get(module1Result).cmMirageExplanation # Null

\* (a - b) x countActual of the anchor week, 0 when a or b is missing
InputGapDollars(a, b) ==
    IF Present(InputAnchor, a) /\ Present(InputAnchor, b)
    THEN Mul(Sub(Get(InputAnchor[a]), Get(InputAnchor[b])), Get(InputAnchor.countActual))
    ELSE R(0)

InputCacDollars == InputGapDollars("cacActual", "cacForecast")

InputAovDollars == InputGapDollars("aovForecast", "aovActual")

\* the leak reported from the two dollar amounts: CAC when strictly larger
LeakCompared ==
    /\ Get(module1Result).biggestLeak =
          (IF Gt(InputCacDollars, InputAovDollars) THEN "cac_overspend"
           ELSE "aov_shortfall")
    /\ Get(module1Result).biggestLeakDollars =
          (IF Gt(InputCacDollars, InputAovDollars) THEN InputCacDollars
           ELSE InputAovDollars)

NoLeakReported ==
    /\ Get(module1Result).biggestLeak = ""
    /\ Get(module1Result).biggestLeakDollars = R(0)

\* C23 as stated: when the anchor week has countActual present, the biggest leak
\* is the CAC overspend if (cacActual - cacForecast) x countActual is strictly
\* larger than (aovForecast - aovActual) x countActual and the AOV shortfall
\* otherwise, biggestLeakDollars being the larger amount and a gap with a missing
\* operand counting as 0; when countActual is absent no leak is reported and
\* biggestLeakDollars is 0.
C23_LeakWhenCountPresent ==
    (Returned1 /\ InputHasAnchor) =>
        IF Present(InputAnchor, "countActual") THEN LeakCompared ELSE NoLeakReported

\* C23, amended: the comparison is made when countActual is present and not 0;
\* when countActual is absent or 0 no leak is reported and biggestLeakDollars is 0.
C23_LeakWhenCountNonZero ==
    (Returned1 /\ InputHasAnchor) =>
        IF Present(InputAnchor, "countActual") /\ ~IsZero(Get(InputAnchor.countActual))
        THEN LeakCompared ELSE NoLeakReported

\* 10 customers, CAC 50 over plan and AOV 50 under plan: a tie, reported as the
\* AOV shortfall of 500
C23_Witness ==
    /\ Returned1 /\ InputHasAnchor
    /\ InputAnchor.countActual = N(10)
    /\ InputAnchor.cacActual = N(120) /\ InputAnchor.cacForecast = N(70)
    /\ InputAnchor.aovActual = N(80) /\ InputAnchor.aovForecast = N(130)
    /\ Get(module1Result).biggestLeak = "aov_shortfall"
    /\ Get(module1Result).biggestLeakDollars = R(500)

\* C24: for the same anchor week, whenever the Governor's biggestLeak and step
\* 6's finding both name a biggest dollar leak, they name the same one, CAC
\* overspend or AOV shortfall.
C24_Step6NamesTheGovernorsLeak ==
    (Diagnosed /\ InputHasAnchor /\ Get(module1Result).biggestLeak # ""
       /\ BuiltSteps[6].finding \in {"leak_cac_overspend", "leak_aov_shortfall"}) =>
        (Get(module1Result).biggestLeak = "cac_overspend"
            <=> BuiltSteps[6].finding = "leak_cac_overspend")

----------------------------------------------------------------------------
(* Claim C27: the RCA and the economic verdict *)

\* a week with the Tier 2 fields of w and, of the primary fields, a spend only
Tier2Only(w) ==
    [f \in DOMAIN EMPTY_WEEK |->
        IF f \in TIER2_FIELDS THEN w[f]
        ELSE IF f = "adSpend" THEN N(100)
        ELSE IF f = "label" THEN LABELS[1]
        ELSE IF f = "weekNum" THEN 1
        ELSE Null]

\* what runModule2 gives as RCA: the summary, or nothing because it threw
RcaOutcome(m2) == IF m2 = Thrown THEN Some(Thrown) ELSE m2.rcaSummary

\* the pipeline evaluated on a second input: one week with the same Tier 2 fields
\* as the anchor week, other primary fields, another verdict
SecondDiagnosis == runModule2(runModule1(<<Tier2Only(InputAnchor)>>))

\* C27: two Governor results whose anchor weeks have the same Tier 2 fields get
\* the same RCA summary from runModule2, whatever their verdicts, mirage flags and
\* primary fields.
C27_SameTier2SameRca ==
    (Diagnosed /\ InputHasAnchor) =>
        RcaOutcome(Get(module2Result)) = RcaOutcome(SecondDiagnosis)

----------------------------------------------------------------------------
(* App: claims about the Tier 2 operations and the fetches *)

\* the weeks of b are the weeks of a, in the same number and order, as far as
\* label, weekNum and the primary fields go
SamePrimary(a, b) ==
    /\ Len(a) = Len(b)
    /\ \A i \in 1..Len(a) :
          \A f \in PRIMARY_FIELDS \cup {"label", "weekNum"} : b[i][f] = a[i][f]

\* a step in which a fetch (mount or sync) resolved with sheet data
FetchLoadedStep == pending' # pending /\ pending' \subseteq pending /\ error' = Null

\* a step of updateCell, applyGrid or handleClearTier2
Tier2EditStep == userOps' # userOps

\* C25: every Tier 2 operation keeps the primary data.  A cell edit, a pasted grid
\* and a clear leave label, weekNum and the nine primary fields of every week as
\* they were, with the same number and order of weeks; the weeks a successful
\* fetch sets are the sheet's weeks with stored Tier 2 merged, equal to the
\* sheet's in label, weekNum, primary fields, number and order.
C25_Tier2OpsKeepPrimary ==
    [][/\ Tier2EditStep => SamePrimary(weeks, weeks')
       /\ FetchLoadedStep =>
              \E sheetWeeks \in SheetInputs :
                  /\ weeks' = mergeTier2(sheetWeeks, tier2Store)
                  /\ SamePrimary(sheetWeeks, weeks')]_vars

\* two weeks with primary data, the first with a stored cvr merged at load and a
\* cpm pasted afterwards
C25_Witness ==
    /\ userOps = 1
    /\ Len(weeks) = 2
    /\ weeks[1].cvr = N(2)
    /\ weeks[1].cpm = N(35)
    /\ ~IsNull(weeks[1].cmActual)
    /\ ~IsNull(weeks[2].cmActual)

\* the pipeline evaluated afresh on a week sequence
FreshModule1(ws) == runModule1(ws)
FreshModule2(ws) ==
    IF FreshModule1(ws) = Thrown THEN Thrown ELSE runModule2(FreshModule1(ws))

FetchSettledStep == pending' # pending /\ pending' \subseteq pending

\* C28: a fetch that fails, at mount or on a sync, leaves weeks exactly as they
\* were and sets the error message; a fetch that succeeds, also after a failed
\* one, sets weeks to the sheet's weeks with the stored Tier 2 merged and clears
\* the error; when a sync settles, failed or not, syncing is false again, and
\* syncing is true only while a sync is in flight.
C28_FailedFetchKeepsWeeks ==
    [][/\ FetchSettledStep =>
              \/ /\ weeks' = weeks
                 /\ \E message \in FETCH_ERRORS : error' = Some(message)
              \/ /\ \E sheetWeeks \in SheetInputs :
                        weeks' = mergeTier2(sheetWeeks, tier2Store)
                 /\ error' = Null
       /\ ("sync" \in pending /\ "sync" \notin pending') => ~syncing'
       /\ syncing' => "sync" \in pending']_vars

\* a sync has failed after a successful load: the weeks are still there, the
\* error is set and syncing is false
C28_Witness ==
    /\ syncs = 1 /\ pending = {}
    /\ ~IsNull(error)
    /\ weeks # <<>>
    /\ ~syncing /\ ~loading

\* the sheet weeks that carry the labels of ws in the same order, Tier 2 empty
SheetOf(ws) ==
    [i \in 1..Len(ws) |->
        [k \in DOMAIN ws[i] |-> IF k \in TIER2_FIELDS THEN Null ELSE ws[i][k]]]

\* C29: saving the Tier 2 values of the weeks with saveTier2 and merging them
\* with mergeTier2 onto sheet weeks with the same labels in the same order gives
\* every week exactly the Tier 2 values it had: none receives another week's
\* values, none loses its own.
C29_SaveThenMergeRestores ==
    (weeks # <<>> /\ ~Crashed) =>
        mergeTier2(SheetOf(weeks), saveTier2(weeks)) = weeks

\* C30: the stored Tier 2 map is never written while weeks is empty.  No step
\* that ends with weeks empty changes the store, and while weeks is empty (before
\* the first successful load, and after a failed initial load) the store holds
\* what the earlier session left.
C30_StoreKeptWhileNoWeeks ==
    /\ [](weeks = <<>> => tier2Store \in InitialStores)
    /\ [][weeks' = <<>> => tier2Store' = tier2Store]_vars

\* the initial load has failed and the Tier 2 data of the earlier session is
\* still stored
C30_Witness ==
    /\ weeks = <<>>
    /\ ~loading /\ ~IsNull(error)
    /\ ~IsNull(tier2Store)
    /\ Get(tier2Store)[LABELS[1]].cvr = N(2)


============================================================================
